---------------------------- MODULE Spec2Model ----------------------------
(***************************************************************************)
(* Model of the migration engine of aromatic (src/src/migrations.rs).      *)
(*                                                                         *)
(* One invocation of migrate() is a sequence of steps over one open        *)
(* transaction: begin, create_migrations_table, get_migrations_history,    *)
(* get_migrations_files, one pass of run_inital_migrations or              *)
(* run_migrations per discovered file, commit_transaction.  The database   *)
(* is the SQLite file: `db` is its committed content, `tx` the content     *)
(* seen inside the open transaction.  Dropping the transaction without     *)
(* commit (every early `return`, a failed commit) rolls it back.           *)
(*                                                                         *)
(* Assumptions about the collaborators that are not in the source:         *)
(*  - a statement that fails inside the transaction changes nothing and    *)
(*    leaves the transaction usable (SQLite statement-level atomicity);    *)
(*  - the SQL of a migration file does not itself touch the migrations     *)
(*    table nor end the transaction;                                       *)
(*  - every database or file-system call may fail.                         *)
(***************************************************************************)
EXTENDS Integers, Sequences, FiniteSets, TLC

\* ------------------------------------------------------------------ bounds
MaxRuns == 2          \* invocations of migrate() in one behaviour
MaxFaults == 2        \* calls that may fail in one behaviour
MaxNameLen == 5       \* characters of a name given to skip_migration
MaxTypeDepth == 2     \* nesting of generic arguments in a field type

\* ------------------------------------------------------- names and folders
\* File names are sequences of characters, so that name.contains("test")
\* is computed and not assumed: "set" has the letters of "test" without
\* containing it, "atest" contains it after its first character.
NameInit == <<"s", "e", "t">>
NameSeed == <<"a", "t", "e", "s", "t">>
NameNext == <<"b">>
Names == {NameInit, NameSeed, NameNext}

FolderPaths == {"migrations"}

\* "test", the substring of line 247
TestMarker == <<"t", "e", "s", "t">>

\* str::starts_with in the place of str::contains
StartsWith(s, sub) ==
    Len(sub) <= Len(s) /\ \A j \in 1..Len(sub) : s[j] = sub[j]

\* str::contains (line 247): sub occurs in s as a contiguous block
Contains(s, sub) ==
    \E i \in 0..(Len(s) - Len(sub)) :
        \A j \in 1..Len(sub) : s[i + j] = sub[j]

\* Option<u32>
None == <<>>
Some(id) == <<id>>

\* --------------------------------------------------------------- variables
VARIABLES
    db,                  \* committed database
    tx,                  \* database as seen inside the open transaction
    pc,                  \* position of migrate()
    flag,                \* RUN_TEST_MIGRATIONS of this invocation
    folder_path,         \* argument of migrate()
    migrations_history,  \* Vec<Migration> loaded at line 72
    migrations_files,    \* Vec<MigrationFile> built at line 84
    idx,                 \* position of the for loop over migrations_files
    runNo,               \* number of invocations started so far
    log,                 \* what this invocation did with each file, in order
    errors,              \* the functions whose error! this invocation logged
    faults,              \* calls that have failed in this behaviour
    lastEnd,             \* how the latest invocation ended
    start,               \* db when this invocation began
    prev,                \* summary of the invocation before this one
    call,                \* arguments of the pure function being evaluated
    result               \* <<value>> once it has been evaluated

vars == <<db, tx, pc, flag, folder_path, migrations_history, migrations_files,
          idx, runNo, log, errors, faults, lastEnd, start, prev, call, result>>

\* ------------------------------------------------------------ the database
\* table: the migrations table exists; history: its rows; seq: the
\* AUTOINCREMENT counter of the table (sqlite_sequence); applied[n]: how many
\* times the SQL of the file named n has been applied to the schema.
EmptyDb == [table |-> FALSE, history |-> {}, seq |-> 0,
            applied |-> [n \in Names |-> 0]]

\* struct MigrationFile and MigrationFile::new (lines 32-46)
MigrationFileNew(folder, name) ==
    [name |-> name, ran |-> FALSE, path |-> <<folder, name>>]

\* the file name a path ends with
FileName(path) == path[2]

\* the rows of a table in rowid order, as SELECT * returns them
RECURSIVE RowsById(_)
RowsById(rows) ==
    IF rows = {} THEN <<>>
    ELSE LET r == CHOOSE x \in rows : \A y \in rows : x.id <= y.id
         IN <<r>> \o RowsById(rows \ {r})

\* directory listings: the entries of a folder, any files among Names, in
\* whatever order read_dir yields them
RECURSIVE ListingsOfLen(_)
ListingsOfLen(n) ==
    IF n = 0 THEN {<<>>}
    ELSE {Append(l, x) : l \in ListingsOfLen(n - 1), x \in Names}

IsListing(l) == \A i, j \in 1..Len(l) : i # j => l[i] # l[j]

Listings ==
    UNION {{l \in ListingsOfLen(n) : IsListing(l)} : n \in 0..Cardinality(Names)}

\* ----------------------------------------------------------- pure functions
\* skip_migration with the test-mode branch before the has-been-run branch
skip_migration_flag_first(migration_has_been_run, name, run_test_migrations) ==
    IF run_test_migrations THEN FALSE
    ELSE IF migration_has_been_run THEN TRUE
    ELSE Contains(name, TestMarker)

\* skip_migration without the test-mode branch
skip_migration_no_test_mode(migration_has_been_run, name, run_test_migrations) ==
    IF migration_has_been_run THEN TRUE
    ELSE Contains(name, TestMarker)

\* skip_migration (lines 233-249)
skip_migration(migration_has_been_run, name, run_test_migrations) ==
    IF migration_has_been_run THEN TRUE
    ELSE IF run_test_migrations THEN FALSE
    ELSE Contains(name, TestMarker)

\* ---------------------------------------------------- history store (SQL)
\* save_migration_to_history (lines 348-375): INSERT INTO migrations
\* (name,path,ran); the id is the next AUTOINCREMENT value.
save_migration_to_history(migration_file, t, ok) ==
    IF ok
    THEN [t EXCEPT !.history = @ \cup {[id   |-> t.seq + 1,
                                        name |-> migration_file.name,
                                        path |-> migration_file.path,
                                        ran  |-> migration_file.ran]},
                   !.seq = @ + 1]
    ELSE t

\* update_migration_to_history (lines 323-346): UPDATE migrations SET
\* ran = true WHERE id = id_to_update
update_migration_to_history(t, id_to_update, ok) ==
    IF ok
    THEN [t EXCEPT !.history =
            {IF r.id = id_to_update THEN [r EXCEPT !.ran = TRUE] ELSE r : r \in @}]
    ELSE t

\* save_or_update that inserts whatever id_to_update holds
save_or_update_always_inserts(migration_file, t, id_to_update, ok) ==
    save_migration_to_history(migration_file, t, ok)

\* save_or_update (lines 271-290): the error of either call is logged and
\* dropped
save_or_update(migration_file, t, id_to_update, ok) ==
    IF id_to_update # None
    THEN update_migration_to_history(t, id_to_update[1], ok)
    ELSE save_migration_to_history(migration_file, t, ok)

\* outcomes of execute_migration: the file is read and its SQL executed, or
\* the file cannot be read, or the SQL fails
ExecOutcomes == {"ok", "read_err", "sql_err"}

\* execute_migration (lines 292-321): Ok leaves the SQL applied inside the
\* transaction, Err(MigrationError::Failed) leaves the transaction as it was
execute_migration(file_path, t, outcome) ==
    IF outcome = "ok"
    THEN [ok |-> TRUE,
          tx |-> [t EXCEPT !.applied[FileName(file_path)] = @ + 1]]
    ELSE [ok |-> FALSE, tx |-> t]

\* the statement save_or_update issues (lines 276-279)
SaveOp(id_to_update) == IF id_to_update # None THEN "update" ELSE "insert"

\* make_migration with the Err arm recording the file all the same
make_migration_records_failure(migration_file, t, id_to_update, outcome, saveOk) ==
    LET r == execute_migration(migration_file.path, t, outcome)
    IN [tx  |-> save_or_update([migration_file EXCEPT !.ran = TRUE], r.tx,
                               id_to_update, saveOk),
        out |-> IF r.ok THEN "executed" ELSE "failed",
        op  |-> SaveOp(id_to_update)]

\* make_migration that saves the file before its ran flag is set
make_migration_saves_unflagged(migration_file, t, id_to_update, outcome, saveOk) ==
    LET r == execute_migration(migration_file.path, t, outcome)
    IN IF r.ok
       THEN [tx  |-> save_or_update(migration_file, r.tx, id_to_update, saveOk),
             out |-> "executed",
             op  |-> SaveOp(id_to_update)]
       ELSE [tx |-> t, out |-> "failed", op |-> "none"]

\* make_migration (lines 251-269): tx is the transaction afterwards, out is
\* "executed" on the Ok arm and "failed" on the Err arm (which only logs), op
\* is the history statement issued
make_migration(migration_file, t, id_to_update, outcome, saveOk) ==
    LET r == execute_migration(migration_file.path, t, outcome)
    IN IF r.ok
       THEN [tx  |-> save_or_update([migration_file EXCEPT !.ran = TRUE], r.tx,
                                    id_to_update, saveOk),
             out |-> "executed",
             op  |-> SaveOp(id_to_update)]
       ELSE [tx |-> t, out |-> "failed", op |-> "none"]

\* the HashMap keyed by path and asked by name: nothing is ever found
LookupKeyedByPath(history, name) ==
    LET hits == {i \in 1..Len(history) : history[i].path = name}
    IN IF hits = {} THEN None
       ELSE Some(history[CHOOSE i \in hits : \A j \in hits : j <= i])

\* the HashMap of lines 191-194: a later row of the same name replaces an
\* earlier one; None when no row has the name
Lookup(history, name) ==
    LET hits == {i \in 1..Len(history) : history[i].name = name}
    IN IF hits = {} THEN None
       ELSE Some(history[CHOOSE i \in hits : \A j \in hits : j <= i])


\* one pass of the loop of run_inital_migrations (lines 219-230)
run_inital_migrations(migration_file, t, run_test, outcome, saveOk) ==
    IF skip_migration(migration_file.ran, migration_file.name, run_test)
    THEN [tx |-> t, out |-> "skipped", op |-> "none"]
    ELSE make_migration(migration_file, t, None, outcome, saveOk)

\* one pass of the loop of run_migrations (lines 196-212): the skip policy is
\* asked only when a row of the file's name was found
run_migrations(migration_file, history, t, run_test, outcome, saveOk) ==
    LET found == Lookup(history, migration_file.name)
    IN IF found # None /\ skip_migration(found[1].ran, found[1].name, run_test)
       THEN [tx |-> t, out |-> "skipped", op |-> "none"]
       ELSE make_migration(migration_file, t,
                           IF found # None THEN Some(found[1].id) ELSE None,
                           outcome, saveOk)

\* create_migrations_table (lines 126-142): CREATE TABLE IF NOT EXISTS
create_migrations_table(t, ok) ==
    IF ok THEN [t EXCEPT !.table = TRUE] ELSE t

\* get_migrations_history (lines 144-163): SELECT * FROM migrations; it
\* cannot succeed when the table does not exist
HistoryOutcomes(t) == IF t.table THEN {TRUE, FALSE} ELSE {FALSE}

get_migrations_history(t) == RowsById(t.history)

\* get_migrations_files (lines 165-184) on a readable directory
get_migrations_files(folder, listing) ==
    [i \in 1..Len(listing) |-> MigrationFileNew(folder, listing[i])]

\* ------------------------------------------------------------------- state
NoPrev == [run |-> 0, retry |-> {}]

\* no pure function is being evaluated
NoCall == <<>>

Init ==
    /\ db = EmptyDb
    /\ tx = EmptyDb
    /\ pc = "idle"
    /\ flag = FALSE
    /\ folder_path = "migrations"
    /\ migrations_history = <<>>
    /\ migrations_files = <<>>
    /\ idx = 1
    /\ runNo = 0
    /\ log = <<>>
    /\ errors = {}
    /\ faults = 0
    /\ lastEnd = "none"
    /\ start = EmptyDb
    /\ prev = NoPrev
    /\ call = NoCall
    /\ result = <<>>

\* the outcomes a call may have: failure is possible while the fault budget
\* of the behaviour lasts
Oks == IF faults < MaxFaults THEN {TRUE, FALSE} ELSE {TRUE}

\* the error! a failed call logs
Logged(ok, function) == IF ok THEN {} ELSE {function}

\* the names of the files of the listing
FileNames(files) == {files[i].name : i \in 1..Len(files)}

\* the early `return` arms of migrate: the transaction is dropped without
\* commit, which rolls it back
Return(function, how) ==
    /\ pc' = "done"
    /\ lastEnd' = how
    /\ tx' = db
    /\ errors' = errors \cup {function}
    /\ faults' = faults + 1
    /\ UNCHANGED db

\* the names of the files whose execution failed in this invocation
FailedFiles == {log[i].name : i \in {j \in 1..Len(log) : log[j].out = "failed"}}

\* what the next invocation remembers of this one: the files whose execution
\* failed and, when it committed and logged no error, what it ran on
Summary ==
    IF pc = "done" /\ lastEnd = "committed" /\ errors = {}
    THEN [run |-> runNo, files |-> FileNames(migrations_files), flag |-> flag,
          folder |-> folder_path, before |-> start.history, retry |-> {}]
    ELSE [run |-> 0, retry |-> FailedFiles]

\* ----------------------------------------------------------------- actions
\* migrate, lines 48-62: the transaction is opened, or the invocation ends
Migrate ==
    /\ pc \in {"idle", "done"}
    /\ UNCHANGED <<call, result>>
    /\ runNo < MaxRuns
    /\ \E f \in BOOLEAN, p \in FolderPaths, ok \in Oks :
          /\ flag' = f
          /\ folder_path' = p
          /\ runNo' = runNo + 1
          /\ prev' = Summary
          /\ start' = db
          /\ tx' = db
          /\ log' = <<>>
          /\ migrations_history' = <<>>
          /\ migrations_files' = <<>>
          /\ idx' = 1
          /\ errors' = Logged(ok, "transaction")
          /\ faults' = faults + Cardinality(errors')
          /\ pc' = IF ok THEN "create_table" ELSE "done"
          /\ lastEnd' = IF ok THEN "running" ELSE "begin_failed"
          /\ UNCHANGED db

\* lines 63-71 with a return on the error
CreateMigrationsTableOrReturn ==
    /\ pc = "create_table"
    /\ UNCHANGED <<call, result>>
    /\ \E ok \in Oks :
          IF ok
          THEN /\ tx' = create_migrations_table(tx, ok)
               /\ pc' = "load"
               /\ UNCHANGED <<db, errors, faults, lastEnd>>
          ELSE Return("create_migrations_table", "create_failed")
    /\ UNCHANGED <<flag, folder_path, migrations_history, migrations_files,
                   idx, runNo, log, start, prev>>

\* migrate, lines 63-71: the error is logged and the invocation goes on
CreateMigrationsTable ==
    /\ pc = "create_table"
    /\ UNCHANGED <<call, result>>
    /\ \E ok \in Oks :
          /\ tx' = create_migrations_table(tx, ok)
          /\ errors' = errors \cup Logged(ok, "create_migrations_table")
          /\ faults' = faults + Cardinality(Logged(ok, "create_migrations_table"))
    /\ pc' = "load"
    /\ UNCHANGED <<db, flag, folder_path, migrations_history, migrations_files,
                   idx, runNo, log, lastEnd, start, prev>>

\* lines 72-82 with the error logged and an empty history used instead of the
\* return
GetMigrationsHistoryOrEmpty ==
    /\ pc = "load"
    /\ UNCHANGED <<call, result>>
    /\ \E ok \in HistoryOutcomes(tx) :
          /\ (~ok /\ tx.table) => faults < MaxFaults
          /\ migrations_history' = IF ok THEN get_migrations_history(tx) ELSE <<>>
          /\ errors' = errors \cup Logged(ok, "get_migrations_history")
          /\ faults' = faults + Cardinality(Logged(ok, "get_migrations_history"))
    /\ pc' = "discover"
    /\ UNCHANGED <<db, tx, lastEnd, flag, folder_path, migrations_files, idx,
                   runNo, log, start, prev>>

\* migrate, lines 72-82
GetMigrationsHistory ==
    /\ pc = "load"
    /\ UNCHANGED <<call, result>>
    /\ \E ok \in HistoryOutcomes(tx) :
          IF ok
          THEN /\ migrations_history' = get_migrations_history(tx)
               /\ pc' = "discover"
               /\ UNCHANGED <<db, tx, errors, faults, lastEnd>>
          ELSE /\ (tx.table => faults < MaxFaults)
               /\ Return("get_migrations_history", "load_failed")
               /\ UNCHANGED migrations_history
    /\ UNCHANGED <<flag, folder_path, migrations_files, idx, runNo, log, start,
                   prev>>

\* where the match of lines 97-102 sends the loop
Mode(history) == IF history = <<>> THEN "initial" ELSE "incremental"

\* migrate, lines 84-102: the directory is listed and the run mode chosen
GetMigrationsFiles ==
    /\ pc = "discover"
    /\ UNCHANGED <<call, result>>
    /\ \/ \E listing \in Listings :
             /\ migrations_files' = get_migrations_files(folder_path, listing)
             /\ pc' = IF listing = <<>> THEN "commit"
                      ELSE Mode(migrations_history)
             /\ UNCHANGED <<db, tx, errors, faults, lastEnd>>
       \/ /\ faults < MaxFaults
          /\ Return("get_migrations_files", "discover_failed")
          /\ UNCHANGED migrations_files
    /\ UNCHANGED <<flag, folder_path, migrations_history, idx, runNo, log,
                   start, prev>>

\* the outcomes of executing a file and of recording it: <<execution,
\* insert or update succeeded>>
StepOutcomes ==
    {o \in ExecOutcomes \X BOOLEAN :
        (o[1] # "ok" \/ ~o[2]) => faults < MaxFaults}

\* the error! one pass of the loop logs
StepLogged(res, o) ==
    IF res.out = "skipped" THEN {}
    ELSE IF o[1] # "ok" THEN {"make_migration"}
    ELSE Logged(o[2], "save_or_update")

\* one pass of the for loop is over: the loop variable moves on, and after the
\* last file the loop is left
Advance(res, o) ==
    /\ tx' = res.tx
    /\ log' = Append(log, [name    |-> migrations_files[idx].name,
                           matched |-> Lookup(migrations_history,
                                              migrations_files[idx].name) # None,
                           out     |-> res.out,
                           op      |-> res.op,
                           err     |-> StepLogged(res, o) # {}])
    /\ idx' = idx + 1
    /\ pc' = IF idx = Len(migrations_files) THEN "commit" ELSE pc
    /\ errors' = errors \cup StepLogged(res, o)
    /\ faults' = faults + Cardinality(StepLogged(res, o))

\* lines 215-231 with the statements sent to the pool instead of the
\* transaction: each is committed as it is executed
RunInitialMigrationsOnPool ==
    /\ pc = "initial"
    /\ UNCHANGED <<call, result>>
    /\ \E o \in StepOutcomes :
          Advance(run_inital_migrations(migrations_files[idx], tx, flag,
                                        o[1], o[2]), o)
    /\ db' = tx'
    /\ UNCHANGED <<flag, folder_path, migrations_history, migrations_files,
                   runNo, lastEnd, start, prev>>

\* run_inital_migrations, lines 215-231, one file
RunInitialMigrations ==
    /\ pc = "initial"
    /\ UNCHANGED <<call, result>>
    /\ \E o \in StepOutcomes :
          Advance(run_inital_migrations(migrations_files[idx], tx, flag,
                                        o[1], o[2]), o)
    /\ UNCHANGED <<db, flag, folder_path, migrations_history, migrations_files,
                   runNo, lastEnd, start, prev>>

\* run_migrations, lines 186-213, one file
RunMigrations ==
    /\ pc = "incremental"
    /\ UNCHANGED <<call, result>>
    /\ \E o \in StepOutcomes :
          Advance(run_migrations(migrations_files[idx], migrations_history,
                                 tx, flag, o[1], o[2]), o)
    /\ UNCHANGED <<db, flag, folder_path, migrations_history, migrations_files,
                   runNo, lastEnd, start, prev>>

\* commit_transaction (lines 377-391): the transaction becomes the committed
\* database, or is dropped
commit_transaction(committed, t, ok) == IF ok THEN t ELSE committed

\* migrate, lines 103-110
CommitTransaction ==
    /\ pc = "commit"
    /\ UNCHANGED <<call, result>>
    /\ \E ok \in Oks :
          /\ db' = commit_transaction(db, tx, ok)
          /\ tx' = db'
          /\ lastEnd' = IF ok THEN "committed" ELSE "commit_failed"
          /\ errors' = errors \cup Logged(ok, "commit_transaction")
          /\ faults' = faults + Cardinality(Logged(ok, "commit_transaction"))
    /\ pc' = "done"
    /\ UNCHANGED <<flag, folder_path, migrations_history, migrations_files,
                   idx, runNo, log, start, prev>>

Next ==
    \/ Migrate
    \/ CreateMigrationsTable
    \/ GetMigrationsHistory
    \/ GetMigrationsFiles
    \/ RunInitialMigrations
    \/ RunMigrations
    \/ CommitTransaction

\* the engine run against a fresh database
Spec == Init /\ [][Next]_vars

\* ------------------------------------------------ a database with a history
\* A migrations table that already exists when the engine first runs, empty
\* or holding rows, among them rows with ran = false, which the engine itself
\* never writes.
Row(id, name, ran) ==
    [id |-> id, name |-> name, path |-> <<"migrations", name>>, ran |-> ran]

SeedHistories ==
    { {},
      {Row(1, NameInit, FALSE)},
      {Row(1, NameSeed, FALSE)},
      {Row(1, NameInit, TRUE), Row(2, NameNext, FALSE)} }

SeedDb(history) ==
    [table   |-> TRUE,
     history |-> history,
     seq     |-> Cardinality(history),
     applied |-> [n \in Names |->
                    IF \E r \in history : r.name = n /\ r.ran THEN 1 ELSE 0]]

InitSeeded ==
    /\ \E h \in SeedHistories : db = SeedDb(h)
    /\ tx = db
    /\ start = db
    /\ pc = "idle"
    /\ flag = FALSE
    /\ folder_path = "migrations"
    /\ migrations_history = <<>>
    /\ migrations_files = <<>>
    /\ idx = 1
    /\ runNo = 0
    /\ log = <<>>
    /\ errors = {}
    /\ faults = 0
    /\ lastEnd = "none"
    /\ prev = NoPrev
    /\ call = NoCall
    /\ result = <<>>

SpecSeeded == InitSeeded /\ [][Next]_vars


\* ------------------------------------------------ skip_migration on its own
\* the characters names are made of
Chars == {"t", "e", "s", "a"}

RECURSIVE NamesOfLen(_)
NamesOfLen(n) ==
    IF n = 0 THEN {<<>>}
    ELSE {Append(w, c) : w \in NamesOfLen(n - 1), c \in Chars}

\* the arguments of skip_migration: every name of up to MaxNameLen characters
SkipInputs ==
    [ran : BOOLEAN, name : UNION {NamesOfLen(n) : n \in 0..MaxNameLen},
     flag : BOOLEAN]

\* the engine is not running
EngineIdle ==
    /\ db = EmptyDb
    /\ tx = EmptyDb
    /\ pc = "idle"
    /\ flag = FALSE
    /\ folder_path = "migrations"
    /\ migrations_history = <<>>
    /\ migrations_files = <<>>
    /\ idx = 1
    /\ runNo = 0
    /\ log = <<>>
    /\ errors = {}
    /\ faults = 0
    /\ lastEnd = "none"
    /\ start = EmptyDb
    /\ prev = NoPrev

InitSkip ==
    /\ EngineIdle
    /\ call \in SkipInputs
    /\ result = <<>>

\* one call of skip_migration (lines 233-249)
SkipMigration ==
    /\ result = <<>>
    /\ result' = <<skip_migration(call.ran, call.name, call.flag)>>
    /\ UNCHANGED <<db, tx, pc, flag, folder_path, migrations_history,
                   migrations_files, idx, runNo, log, errors, faults, lastEnd,
                   start, prev, call>>

NextSkip == SkipMigration

SpecSkip == InitSkip /\ [][NextSkip]_vars

\* ------------------------------------- schema generator (create_migrations.rs)
\* the identifiers a type path may end with; Uuid stands for any type the
\* generator does not know
IntegerIdents ==
    {"i8", "u8", "i16", "u16", "i32", "u32", "i64", "u64", "isize", "usize"}
FloatIdents == {"f32", "f64"}
TextIdents == {"String", "str"}
Idents ==
    IntegerIdents \cup FloatIdents \cup TextIdents
        \cup {"bool", "Vec", "Option", "Uuid"}

\* syn::Type: a path, of which the generator reads the last segment (its
\* identifier and the first generic argument, if any), or anything else (a
\* reference, a tuple, an array)
PathType(ident, args) == [kind |-> "path", ident |-> ident, args |-> args]
OtherType == [kind |-> "other"]

RECURSIVE TypesOfDepth(_)
TypesOfDepth(d) ==
    IF d = 0 THEN {OtherType} \cup {PathType(id, <<>>) : id \in Idents}
    ELSE TypesOfDepth(d - 1)
            \cup {PathType(id, <<t>>) :
                     id \in {"Vec", "Option"}, t \in TypesOfDepth(d - 1)}

\* enum RustSqlite (lines 6-15)
Plain(tag) == [tag |-> tag]
Optional(inner) == [tag |-> "Optional", inner |-> inner]

\* RustSqlite::from_syn_type (lines 18-48): type_name is the identifier of
\* the last segment, which the arms compare with string literals
RECURSIVE from_syn_type(_)
from_syn_type(ty) ==
    IF ty.kind = "path"
    THEN LET type_name == ty.ident
         IN IF type_name \in IntegerIdents THEN Plain("Integer")
            ELSE IF type_name \in FloatIdents THEN Plain("Float")
            ELSE IF type_name \in TextIdents THEN Plain("Text")
            ELSE IF type_name = "bool" THEN Plain("Boolean")
            ELSE IF type_name = "Vec<u8>" THEN Plain("Binary")
            ELSE IF type_name = "Option"
                 THEN IF ty.args # <<>>
                      THEN Optional(from_syn_type(ty.args[1]))
                      ELSE Plain("Other")
            ELSE Plain("Other")
    ELSE Plain("Other")

\* RustSqlite::to_sql_type (lines 50-60)
RECURSIVE to_sql_type(_)
to_sql_type(self) ==
    CASE self.tag = "Integer"  -> "INTEGER"
      [] self.tag = "Float"    -> "REAL"
      [] self.tag = "Text"     -> "TEXT"
      [] self.tag = "Boolean"  -> "INTEGER"
      [] self.tag = "Binary"   -> "BLOB"
      [] self.tag = "Optional" -> to_sql_type(self.inner)
      [] self.tag = "Other"    -> "TEXT"

\* RustSqlite::nullability (lines 61-67)
nullability(self) == IF self.tag = "Optional" THEN "" ELSE " NOT NULL"

\* the column struct_to_sql_table emits for one field (lines 100-107)
struct_to_sql_table(field_name, ty) ==
    LET rust_type == from_syn_type(ty)
    IN <<field_name, to_sql_type(rust_type), nullability(rust_type)>>

InitSchema ==
    /\ EngineIdle
    /\ call \in [field : {"data"}, ty : TypesOfDepth(MaxTypeDepth)]
    /\ result = <<>>

\* one field of one struct goes through struct_to_sql_table
StructToSqlTable ==
    /\ result = <<>>
    /\ result' = <<struct_to_sql_table(call.field, call.ty)>>
    /\ UNCHANGED <<db, tx, pc, flag, folder_path, migrations_history,
                   migrations_files, idx, runNo, log, errors, faults, lastEnd,
                   start, prev, call>>

NextSchema == StructToSqlTable

SpecSchema == InitSchema /\ [][NextSchema]_vars

\* ------------------------------------------------------------------ claims
\* the rows of a history that carry a name
RowsNamed(history, name) == {r \in history : r.name = name}

\* this invocation ended, committed, and logged no error
CleanRun == pc = "done" /\ lastEnd = "committed" /\ errors = {}

Executed == {log[i].name : i \in {j \in 1..Len(log) : log[j].out = "executed"}}

\* C1: a second invocation on the same directory with the same flag, after
\* one that committed without error, adds no history row and executes no
\* migration file.
C1_Idempotent ==
    (/\ CleanRun
     /\ prev.run > 0
     /\ prev.files = FileNames(migrations_files)
     /\ prev.flag = flag
     /\ prev.folder = folder_path)
    => /\ Cardinality(db.history) = Cardinality(start.history)
       /\ Executed = {}

\* C2: in incremental mode a discovered file without a history row of its
\* name is skipped exactly when skip_migration(false, name, flag) says so, as
\* in bootstrap mode; with the flag off a name containing "test" is skipped.
C2_UnmatchedAsBootstrap ==
    \A i \in 1..Len(log) :
        (Mode(migrations_history) = "incremental" /\ ~log[i].matched)
        => (log[i].out = "skipped" <=> skip_migration(FALSE, log[i].name, flag))

\* C3: whatever fails along the way, the committed database never holds the
\* SQL of one migration file name applied more than once.
C3_AppliedAtMostOnce == \A n \in Names : db.applied[n] <= 1

\* C4: after an invocation that committed, every file it executed has exactly
\* one history row of its name, and that row has ran = true.
C4_OneToOne ==
    (pc = "done" /\ lastEnd = "committed")
    => \A n \in Executed :
          /\ Cardinality(RowsNamed(db.history, n)) = 1
          /\ \A r \in RowsNamed(db.history, n) : r.ran

\* C5: a file whose execution failed leaves the history rows of its name as
\* they were before the invocation, the loop goes on to every later file, and
\* the invocation ends in commit_transaction.
C5_FailureIsolated ==
    \A i \in 1..Len(log) :
        log[i].out = "failed"
        => /\ RowsNamed(tx.history, log[i].name)
                = RowsNamed(start.history, log[i].name)
           /\ pc \in {"initial", "incremental"}
                => (Len(log) = idx - 1 /\ idx <= Len(migrations_files))
           /\ pc \in {"commit", "done"} => Len(log) = Len(migrations_files)
           /\ pc = "done" => lastEnd \in {"committed", "commit_failed"}

C5_Witness ==
    /\ pc = "done"
    /\ lastEnd = "committed"
    /\ \E i, j \in 1..Len(log) :
          i < j /\ log[i].out = "failed" /\ log[j].out = "executed"

\* C6: after a first invocation on an empty history that committed without
\* error, a second one with the same flag and exactly one more file (one the
\* skip policy lets run), also committed without error, leaves one more
\* history row than before and every earlier row as it was.
C6_BootstrapThenIncremental ==
    (/\ CleanRun
     /\ prev.run > 0
     /\ prev.before = {}
     /\ prev.flag = flag
     /\ prev.folder = folder_path
     /\ prev.files \subseteq FileNames(migrations_files)
     /\ Cardinality(FileNames(migrations_files) \ prev.files) = 1
     /\ \A n \in FileNames(migrations_files) \ prev.files :
           ~skip_migration(FALSE, n, flag))
    => /\ Cardinality(db.history) = Cardinality(start.history) + 1
       /\ start.history \subseteq db.history

\* C7: the committed database differs from what it was when the invocation
\* began only once commit_transaction has succeeded.
C7_AllOrNothing ==
    (pc = "done" /\ lastEnd = "committed") \/ db = start

C7_Witness ==
    /\ pc = "done"
    /\ lastEnd = "commit_failed"
    /\ Executed # {}
    /\ start.history # {}

\* C8: from an empty history, no two rows of the history table, committed or
\* inside the transaction, have the same name.
C8_OneRowPerName ==
    \A h \in {db.history, tx.history} :
        \A r1, r2 \in h : r1.name = r2.name => r1 = r2

C8_Witness ==
    /\ pc = "done"
    /\ lastEnd = "committed"
    /\ Cardinality(db.history) > Cardinality(start.history)
    /\ \E i \in 1..Len(log) : log[i].matched

\* C9: every committed history row stays: a step keeps its id, name and path,
\* never turns ran from true to false, and adds no second row of its name.
C9_RecordLifecycle ==
    [][\A r \in db.history :
          /\ \E r2 \in db.history' :
                /\ r2.id = r.id
                /\ r2.name = r.name
                /\ r2.path = r.path
                /\ r.ran => r2.ran
          /\ Cardinality(RowsNamed(db.history', r.name))
                = Cardinality(RowsNamed(db.history, r.name))]_vars

C9_Witness ==
    /\ pc = "done"
    /\ lastEnd = "committed"
    /\ \E r \in start.history, r2 \in db.history :
          r2.id = r.id /\ ~r.ran /\ r2.ran

\* C10: once get_migrations_history or get_migrations_files has failed, the
\* invocation is over: no file was processed, nothing was committed and the
\* transaction is gone.
C10_SetupFailureAborts ==
    (errors \cap {"get_migrations_history", "get_migrations_files"} # {})
    => /\ pc = "done"
       /\ lastEnd \in {"load_failed", "discover_failed"}
       /\ log = <<>>
       /\ db = start
       /\ tx = db

C10_Witness ==
    /\ "get_migrations_files" \in errors
    /\ start.history # {}

\* the entry of the log for a file name
Entry(name) == log[CHOOSE i \in 1..Len(log) : log[i].name = name]

\* C11: a file whose execution failed has no history row with ran = true;
\* the next invocation that lists it, is allowed by the skip policy to run it
\* and commits, attempts it again, and if the execution then succeeds the
\* history holds a row of its name with ran = true.
C11_RetryAfterFailure ==
    /\ \A n \in FailedFiles : \A r \in RowsNamed(tx.history, n) : ~r.ran
    /\ (pc = "done" /\ lastEnd = "committed")
       => \A n \in prev.retry \cap FileNames(migrations_files) :
             ~skip_migration(FALSE, n, flag)
             => /\ Entry(n).out # "skipped"
                /\ Entry(n).out = "executed"
                   => \E r \in RowsNamed(db.history, n) : r.ran


\* the rows of the invocation are in place: the transaction is open, or it
\* has been committed
RowsInPlace == pc # "done" \/ lastEnd = "committed"

\* C12: in bootstrap mode (empty history loaded) a file is attempted exactly
\* when skip_migration(false, name, flag) is false; a file executed
\* successfully has a new row of its name with ran = true, and a skipped file
\* has no row.
C12_Bootstrap ==
    (Mode(migrations_history) = "initial" /\ RowsInPlace)
    => \A i \in 1..Len(log) :
          /\ log[i].out # "skipped"
                <=> ~skip_migration(FALSE, log[i].name, flag)
          /\ log[i].out = "executed"
                => \E r \in RowsNamed(tx.history, log[i].name) :
                      r.ran /\ r \notin start.history
          /\ log[i].out = "skipped"
                => RowsNamed(tx.history, log[i].name) = {}


\* name holds the four characters t, e, s, t next to each other
HasTest(name) ==
    \E i \in 1..Len(name) :
        i + 3 <= Len(name) /\ SubSeq(name, i, i + 3) = <<"t", "e", "s", "t">>

\* C13: skip_migration(true, name, flag) is true for every name and flag.
C13_SkipWhenRan ==
    (result # <<>> /\ call.ran) => result[1] = TRUE

C13_Witness ==
    result = <<TRUE>> /\ call.ran /\ call.flag /\ ~HasTest(call.name)

\* C14: skip_migration(false, name, true) is false for every name.
C14_TestModeRuns ==
    (result # <<>> /\ ~call.ran /\ call.flag) => result[1] = FALSE

C14_Witness ==
    result = <<FALSE>> /\ ~call.ran /\ call.flag /\ HasTest(call.name)

\* C15: skip_migration(false, name, false) is true exactly when name
\* contains "test".
C15_SkipIffTest ==
    (result # <<>> /\ ~call.ran /\ ~call.flag)
    => (result[1] <=> HasTest(call.name))

C15_Witness ==
    /\ result = <<TRUE>>
    /\ ~call.ran
    /\ ~call.flag
    /\ call.name = NameSeed


\* the field types the mapping is stated for
IsOption(ty) == ty.kind = "path" /\ ty.ident = "Option" /\ ty.args # <<>>
IsBinary(ty) == ty = PathType("Vec", <<PathType("u8", <<>>)>>)

\* the column type stated for a field type
RECURSIVE StatedSqlType(_)
StatedSqlType(ty) ==
    IF IsOption(ty) THEN StatedSqlType(ty.args[1])
    ELSE IF IsBinary(ty) THEN "BLOB"
    ELSE IF ty.kind # "path" THEN "TEXT"
    ELSE IF ty.ident \in IntegerIdents \cup {"bool"} THEN "INTEGER"
    ELSE IF ty.ident \in FloatIdents THEN "REAL"
    ELSE IF ty.ident \in TextIdents THEN "TEXT"
    ELSE "TEXT"

\* C16: the column emitted for a field has type INTEGER for integral types
\* and bool, REAL for floating types, TEXT for text, BLOB for Vec<u8>, the
\* inner type's for Option<T> and TEXT for anything else, and carries
\* NOT NULL exactly when the field type is not Option<T>.
C16_TypeMapping ==
    result # <<>>
    => /\ result[1][2] = StatedSqlType(call.ty)
       /\ result[1][3] = " NOT NULL" <=> ~IsOption(call.ty)


\* C17: after create_migrations_table has failed the invocation goes on to
\* load the history, and it ends early only when loading the history or
\* listing the directory fails.
C17_CreateFailureNonFatal ==
    "create_migrations_table" \in errors
    => /\ pc \in {"load", "discover", "initial", "incremental", "commit", "done"}
       /\ pc = "done"
          => \/ lastEnd \in {"committed", "commit_failed"}
             \/ /\ lastEnd \in {"load_failed", "discover_failed"}
                /\ errors \cap {"get_migrations_history",
                                "get_migrations_files"} # {}

C17_Witness ==
    /\ "create_migrations_table" \in errors
    /\ pc = "done"
    /\ lastEnd = "committed"
    /\ Executed # {}

\* C18: in incremental mode a file whose name matches a row with ran = false
\* and which the skip policy lets run is attempted; no row is inserted for it
\* and the rows of its name keep their number and ids; when its execution
\* succeeds, the update is issued and the matched row has ran = true.
C18_MatchedUpdated ==
    RowsInPlace
    => \A i \in 1..Len(log) :
          LET n == log[i].name
              rows == RowsNamed(start.history, n)
          IN (/\ log[i].matched
              /\ \E r \in rows : ~r.ran
              /\ ~skip_migration(FALSE, n, flag))
             => /\ log[i].out # "skipped"
                /\ log[i].op # "insert"
                /\ {r.id : r \in RowsNamed(tx.history, n)} = {r.id : r \in rows}
                /\ Cardinality(RowsNamed(tx.history, n)) = Cardinality(rows)
                /\ log[i].out = "executed"
                   => /\ log[i].op = "update"
                      /\ \A r \in rows : [r EXCEPT !.ran = TRUE] \in tx.history

\* C19: from an empty history every row, committed or inside the
\* transaction, has ran = true, and no invocation issues the update.
C19_InsertedRowsRan ==
    /\ \A r \in db.history \cup tx.history : r.ran
    /\ \A i \in 1..Len(log) : log[i].op # "update"

C19_Witness ==
    /\ pc = "done"
    /\ lastEnd = "committed"
    /\ \E i, j \in 1..Len(log) :
          /\ log[i].matched
          /\ log[i].out = "skipped"
          /\ log[j].op = "insert"
          /\ ~log[j].err

==========================================================================
